---- MODULE Spec2Model ----
(***************************************************************************)
(* getCookies (src/src/index.js): one invocation of the exported async     *)
(* function, together with the browser engine it drives (puppeteer-core)   *)
(* and the external actor who closes the page or the browser.              *)
(*                                                                         *)
(* An async function runs synchronously up to its next await, so each      *)
(* action below is one such run: the code between two awaits, started by   *)
(* the engine settling the awaited promise.                                *)
(***************************************************************************)
EXTENDS Naturals, Sequences, FiniteSets

\* Most response events the page delivers in one invocation.
MaxResponses == 2

\* JS `undefined` and the empty string are both falsy: "" stands for either.
Endpoints == {"", "ws://param"}
EnvEndpoints == {"", "ws://env"}
ExecPaths == {"", "/param/chrome"}
EnvExecPaths == {"", "/env/chrome"}
SavePaths == {"", "out.json"}

CookieA == [name |-> "session", value |-> "abc"]
CookieB == [name |-> "theme", value |-> "dark"]

\* The full cookie snapshots the browser can hold.
Snapshots == {<<>>, <<CookieA>>, <<CookieB>>}

\* The defaultCookies argument: none, or one cookie to seed.
SeedSets == {<<>>, <<CookieA>>}

\* No file at cookieSavePath: a text no JSONstringify produces.
NoFile == << <<"absent">> >>

NoRead == [id |-> 0, snap |-> <<>>]

VARIABLES
    paramEp,            \* connectionData.browserWSEndpoint
    paramExe,           \* connectionData.executablePath
    cookieSavePath,     \* argument cookieSavePath
    defaultCookies,     \* argument defaultCookies
    envEp,              \* process.env.WEBHOOK_URL
    envExe,             \* process.env.PUPPETEER_EXECUTABLE_PATH
    pc,                 \* where getCookies is suspended
    isConnectedBrowser, \* line 153
    browserWSEndpoint,  \* getBrowser's local, line 44
    executablePath,     \* getBrowser's local, line 43
    handle,             \* how `browser` was obtained: "none", "connected", "launched"
    launchOpts,         \* the argument of puppeteer.launch, or <<>>
    calls,              \* the engine and fs calls made so far, in order
    cookies,            \* the local `cookies`, line 160
    jar,                \* the browser's cookie store
    pageState,          \* "none", "open", "closed"
    browserAlive,       \* the browser still answers on the connection
    observer,           \* page.on('response', ...) has been registered
    responses,          \* responses the page has received
    pending,            \* browser.cookies() reads in flight
    nProduced,          \* how many reads assigned `cookies` before the catch block ran
    lastRead,           \* the last of them, or NoRead
    thrown,             \* the errors the engine and fs calls have thrown
    file,               \* content at cookieSavePath
    completion,         \* completion record of the try/catch, held while finally runs
    promise             \* the promise getCookies returned

vars ==
    <<paramEp, paramExe, cookieSavePath, defaultCookies, envEp, envExe, pc,
      isConnectedBrowser, browserWSEndpoint, executablePath, handle, launchOpts,
      calls, cookies, jar, pageState, browserAlive, observer, responses,
      pending, nProduced, lastRead, thrown, file, completion, promise>>

inputs == <<paramEp, paramExe, cookieSavePath, defaultCookies>>
env == <<envEp, envExe>>
locals == <<isConnectedBrowser, browserWSEndpoint, executablePath>>
observation == <<cookies, observer, responses, pending, nProduced, lastRead>>

----------------------------------------------------------------------------
\* Pure pieces of the code.

\* JS truthiness of a string-or-undefined.
Truthy(s) == s # ""

\* JS `a || b`.
Or(a, b) == IF Truthy(a) THEN a ELSE b

\* Strategy with the final else launching with whatever path there is.
Strategy_noConfigError(ep, exe) ==
    IF Truthy(ep) THEN "connect" ELSE "launch"

\* Strategy with the two branches tested in the other order.
Strategy_localFirst(ep, exe) ==
    IF Truthy(exe) THEN "launch"
    ELSE IF Truthy(ep) THEN "connect"
    ELSE "error"

\* getBrowser's branch, lines 46-78.
Strategy(ep, exe) ==
    IF Truthy(ep) THEN "connect"
    ELSE IF Truthy(exe) THEN "launch"
    ELSE "error"

\* LaunchOptions asking for a headless browser.
LaunchOptions_headless(exe) == [executablePath |-> exe, headless |-> TRUE]

\* The argument of puppeteer.launch, lines 67-70.
LaunchOptions(exe) == [executablePath |-> exe, headless |-> FALSE]

\* RemoteFlag looking at the parameter only, not at the environment default.
RemoteFlag_paramOnly(param, envDefault) == Truthy(param)

\* !!browserWSEndpoint of getCookies, lines 152-153.
RemoteFlag(param, envDefault) == Truthy(Or(param, envDefault))

\* The release call of the finally block, lines 201-205.
ReleaseCall(remote) == IF remote THEN "disconnect" ELSE "close"

\* JSON.stringify(cookies, null, 2): one text entry per cookie, in order.
JSONstringify(cs) ==
    [i \in 1..Len(cs) |-> <<"{", "name", cs[i].name, "value", cs[i].value, "}">>]

Pending == [state |-> "pending", value |-> <<>>, error |-> "none"]
Resolved(v) == [state |-> "resolved", value |-> v, error |-> "none"]
Rejected(e) == [state |-> "rejected", value |-> <<>>, error |-> e]

NoCompletion == [type |-> "none", value |-> <<>>, error |-> "none"]
Return(v) == [type |-> "return", value |-> v, error |-> "none"]
Throw(e) == [type |-> "throw", value |-> <<>>, error |-> e]

\* An async function's promise adopts the completion of its body.
Settle(c) == IF c.type = "return" THEN Resolved(c.value) ELSE Rejected(c.error)

----------------------------------------------------------------------------
Init ==
    /\ paramEp \in Endpoints
    /\ paramExe \in ExecPaths
    /\ cookieSavePath \in SavePaths
    /\ defaultCookies \in SeedSets
    /\ envEp \in EnvEndpoints
    /\ envExe \in EnvExecPaths
    /\ pc = "init"
    /\ isConnectedBrowser = FALSE
    /\ browserWSEndpoint = ""
    /\ executablePath = ""
    /\ handle = "none"
    /\ launchOpts = <<>>
    /\ calls = <<>>
    /\ cookies = <<>>
    /\ jar = <<>>
    /\ pageState = "none"
    /\ browserAlive = FALSE
    /\ observer = FALSE
    /\ responses = 0
    /\ pending = {}
    /\ nProduced = 0
    /\ lastRead = NoRead
    /\ thrown = {}
    /\ file = NoFile
    /\ completion = NoCompletion
    /\ promise = Pending

\* getCookies lines 152-156 and getBrowser lines 39-78, up to the first await.
Call ==
    /\ pc = "init"
    /\ isConnectedBrowser' = RemoteFlag(paramEp, envEp)
    /\ executablePath' = Or(paramExe, envExe)
    /\ browserWSEndpoint' = Or(paramEp, envEp)
    /\ LET how == Strategy(browserWSEndpoint', executablePath')
       IN  CASE how = "connect" ->
                 /\ calls' = Append(calls, "connect")
                 /\ pc' = "connect"
                 /\ UNCHANGED <<launchOpts, promise>>
             [] how = "launch" ->
                 /\ calls' = Append(calls, "launch")
                 /\ launchOpts' = LaunchOptions(executablePath')
                 /\ pc' = "launch"
                 /\ UNCHANGED promise
             [] OTHER ->
                 /\ promise' = Rejected("ConfigurationError")
                 /\ pc' = "done"
                 /\ UNCHANGED <<calls, launchOpts>>
    /\ UNCHANGED <<inputs, env, handle, jar, pageState, browserAlive,
                   observation, thrown, file, completion>>

\* AfterAcquire opening the page first and seeding afterwards.
AfterAcquire_seedAfterPage(how) ==
    /\ handle' = how
    /\ browserAlive' = TRUE
    /\ calls' = IF Len(defaultCookies) > 0
                THEN calls \o <<"newPage", "setCookie">>
                ELSE Append(calls, "newPage")
    /\ pc' = "newPage"
    /\ UNCHANGED <<inputs, env, locals, launchOpts, jar, pageState,
                   observation, thrown, file, completion, promise>>

\* getBrowser lines 85-89 and getCookies line 157: seed, or go on to newPage.
AfterAcquire(how) ==
    /\ handle' = how
    /\ browserAlive' = TRUE
    /\ IF Len(defaultCookies) > 0
       THEN /\ calls' = Append(calls, "setCookie")
            /\ pc' = "setCookie"
       ELSE /\ calls' = Append(calls, "newPage")
            /\ pc' = "newPage"
    /\ UNCHANGED <<inputs, env, locals, launchOpts, jar, pageState,
                   observation, thrown, file, completion, promise>>

\* An awaited call outside the try block throws: the promise rejects at once.
Abort(e) ==
    /\ thrown' = thrown \cup {e}
    /\ promise' = Rejected(e)
    /\ pc' = "done"
    /\ UNCHANGED <<inputs, env, locals, handle, launchOpts, calls, jar,
                   pageState, browserAlive, observation, file, completion>>

ConnectOk == pc = "connect" /\ AfterAcquire("connected")

\* ConnectFail falling back to a local launch instead of rethrowing.
ConnectFail_fallback ==
    /\ pc = "connect"
    /\ thrown' = thrown \cup {"ConnectionError"}
    /\ calls' = Append(calls, "launch")
    /\ launchOpts' = LaunchOptions(executablePath)
    /\ pc' = "launch"
    /\ UNCHANGED <<inputs, env, locals, handle, jar, pageState, browserAlive,
                   observation, file, completion, promise>>

\* puppeteer.connect throws; the catch of lines 56-59 logs and rethrows.
ConnectFail == pc = "connect" /\ Abort("ConnectionError")

LaunchOk == pc = "launch" /\ AfterAcquire("launched")

\* LaunchFail launching a second time before giving up.
LaunchFail_retry ==
    /\ pc = "launch"
    /\ thrown' = thrown \cup {"LaunchError"}
    /\ IF "LaunchError" \in thrown
       THEN /\ promise' = Rejected("LaunchError")
            /\ pc' = "done"
            /\ UNCHANGED calls
       ELSE /\ calls' = Append(calls, "launch")
            /\ UNCHANGED <<pc, promise>>
    /\ UNCHANGED <<inputs, env, locals, handle, launchOpts, jar, pageState,
                   browserAlive, observation, file, completion>>

\* puppeteer.launch throws; the catch of lines 71-74 logs and rethrows.
LaunchFail == pc = "launch" /\ Abort("LaunchError")

\* browser.setCookie(...cookies) resolves, line 86; then newPage, line 157.
SeedOk ==
    /\ pc = "setCookie"
    /\ jar' = defaultCookies
    /\ calls' = Append(calls, "newPage")
    /\ pc' = "newPage"
    /\ UNCHANGED <<inputs, env, locals, handle, launchOpts, pageState,
                   browserAlive, observation, thrown, file, completion, promise>>

\* browser.setCookie throws: getBrowser throws into line 156, outside the try.
SeedFail == pc = "setCookie" /\ Abort("SeedingError")

\* NewPageOk registering the observer before the navigation starts.
NewPageOk_observerFirst ==
    /\ pc = "newPage"
    /\ pageState' = "open"
    /\ cookies' = <<>>
    /\ observer' = TRUE
    /\ calls' = calls \o <<"on", "goto">>
    /\ pc' = "goto"
    /\ UNCHANGED <<inputs, env, locals, handle, launchOpts, jar, browserAlive,
                   responses, pending, nProduced, lastRead, thrown, file,
                   completion, promise>>

\* browser.newPage() resolves, line 157; cookies = [], line 160; page.goto, line 163.
NewPageOk ==
    /\ pc = "newPage"
    /\ pageState' = "open"
    /\ cookies' = <<>>
    /\ calls' = Append(calls, "goto")
    /\ pc' = "goto"
    /\ UNCHANGED <<inputs, env, locals, handle, launchOpts, jar, browserAlive,
                   observer, responses, pending, nProduced, lastRead, thrown, file,
                   completion, promise>>

\* browser.newPage() throws, line 157, outside the try.
NewPageFail == pc = "newPage" /\ Abort("PageOpenError")

\* page.goto resolves, line 163; the observer is registered, lines 170-172;
\* page.waitForFunction is called and awaited, line 181.
GotoOk ==
    /\ pc = "goto"
    /\ observer' = TRUE
    /\ calls' = calls \o <<"on", "waitForFunction">>
    /\ pc' = "waiting"
    /\ UNCHANGED <<inputs, env, locals, handle, launchOpts, cookies, jar,
                   pageState, browserAlive, responses, pending, nProduced,
                   lastRead, thrown, file, completion, promise>>

\* GotoFail with the navigation error swallowed: the flow goes on to the wait.
GotoFail_swallow ==
    /\ pc = "goto"
    /\ thrown' = thrown \cup {"NavigationError"}
    /\ observer' = TRUE
    /\ calls' = calls \o <<"on", "waitForFunction">>
    /\ pc' = "waiting"
    /\ UNCHANGED <<inputs, env, locals, handle, launchOpts, cookies, jar,
                   pageState, browserAlive, responses, pending, nProduced,
                   lastRead, file, completion, promise>>

\* GotoFail making the navigation a second time before giving up.
GotoFail_retry ==
    /\ pc = "goto"
    /\ thrown' = thrown \cup {"NavigationError"}
    /\ IF "NavigationError" \in thrown
       THEN /\ promise' = Rejected("NavigationError")
            /\ pc' = "done"
            /\ UNCHANGED calls
       ELSE /\ calls' = Append(calls, "goto")
            /\ UNCHANGED <<pc, promise>>
    /\ UNCHANGED <<inputs, env, locals, handle, launchOpts, jar, pageState,
                   browserAlive, observation, file, completion>>

\* page.goto throws, line 163, outside the try.
GotoFail == pc = "goto" /\ Abort("NavigationError")

\* The page receives a response that leaves the browser's store at s. With the
\* observer registered, the callback of line 170 runs and calls browser.cookies(),
\* whose answer is the store as that response left it.
Response(s) ==
    /\ pc \in {"goto", "waiting"}
    /\ pageState = "open"
    /\ responses < MaxResponses
    /\ responses' = responses + 1
    /\ jar' = s
    /\ pending' = IF observer
                  THEN pending \cup {[id |-> responses + 1, snap |-> s]}
                  ELSE pending
    /\ UNCHANGED <<inputs, env, locals, pc, handle, launchOpts, calls, cookies,
                   pageState, browserAlive, observer, nProduced, lastRead,
                   thrown, file, completion, promise>>

\* Assign merging the new snapshot into the old one.
Assign_merge(old, snap) ==
    old \o SelectSeq(snap, LAMBDA c : \A i \in 1..Len(old) : old[i] # c)

\* The value the callback stores when its read resolves, line 171.
Assign(old, snap) == snap

\* A browser.cookies() read resolves and the callback assigns `cookies`, line 171.
\* Reads are separate promises: nothing in the code orders their completion.
ReadComplete(r) ==
    /\ r \in pending
    /\ pc \in {"waiting", "releasing"}
    /\ browserAlive
    /\ cookies' = Assign(cookies, r.snap)
    /\ pending' = pending \ {r}
    /\ IF pc = "waiting"
       THEN nProduced' = nProduced + 1 /\ lastRead' = r
       ELSE UNCHANGED <<nProduced, lastRead>>
    /\ UNCHANGED <<inputs, env, locals, pc, handle, launchOpts, calls, jar,
                   pageState, browserAlive, observer, responses, thrown, file,
                   completion, promise>>

\* A read rejects because the browser or the connection is gone; the callback's
\* promise rejects and `cookies` keeps its value.
ReadFail(r) ==
    /\ r \in pending
    /\ \/ ~browserAlive
       \/ pc = "done"
    /\ pending' = pending \ {r}
    /\ UNCHANGED <<inputs, env, locals, pc, handle, launchOpts, calls, cookies,
                   jar, pageState, browserAlive, observer, responses, nProduced,
                   lastRead, thrown, file, completion, promise>>

\* The external actor closes the page (the browser stays up) or the browser.
ExternalClose(kind) ==
    /\ pc = "waiting"
    /\ pageState = "open"
    /\ pageState' = "closed"
    /\ browserAlive' = (kind = "page")
    /\ UNCHANGED <<inputs, env, locals, pc, handle, launchOpts, calls, jar,
                   observation, thrown, file, completion, promise>>

\* The value `return cookies` hands to the caller, line 191.
ReturnValue(cs) == cs

\* The text written to cookieSavePath, line 189.
FileContent(cs) == JSONstringify(cs)

\* ShouldSave without the test.
ShouldSave_always(path) == TRUE

\* if (cookieSavePath), line 188.
ShouldSave(path) == Truthy(path)

\* The start of the finally block, lines 200-205: the release call is made and
\* awaited. `log` is the call log as the catch block left it.
StartRelease(log) ==
    /\ calls' = Append(log, ReleaseCall(isConnectedBrowser))
    /\ pc' = "releasing"

\* WaitEnded for a wait that only a lost browser ends, not a closed page.
WaitEnded_browserOnly == ~browserAlive

\* WaitEnded for a wait with a timeout: it can end with the page still open.
WaitEnded_timeout == TRUE

\* page.waitForFunction(() => false, { timeout: 0 }), line 181, rejects: the
\* predicate never holds and there is no timeout, so only the loss of the page
\* (closed, or gone with its browser) ends the wait.
WaitEnded == pageState = "closed"

\* waitForFunction rejects because the page is gone; the catch block runs, lines
\* 182-192, the write (if any) succeeds, and the finally block starts.
CatchClosure ==
    /\ pc = "waiting"
    /\ WaitEnded
    /\ IF ShouldSave(cookieSavePath)
       THEN /\ file' = FileContent(cookies)
            /\ StartRelease(Append(calls, "writeFileSync"))
       ELSE /\ UNCHANGED file
            /\ StartRelease(calls)
    /\ completion' = Return(ReturnValue(cookies))
    /\ UNCHANGED <<inputs, env, locals, handle, launchOpts, jar, pageState,
                   browserAlive, observation, thrown, promise>>

\* CatchClosureWriteFail without a finally block: the write error leaves the
\* function at once.
CatchClosureWriteFail_noFinally ==
    /\ pc = "waiting"
    /\ pageState = "closed"
    /\ ShouldSave(cookieSavePath)
    /\ thrown' = thrown \cup {"PersistenceError"}
    /\ calls' = Append(calls, "writeFileSync")
    /\ promise' = Rejected("PersistenceError")
    /\ pc' = "done"
    /\ UNCHANGED <<inputs, env, locals, handle, launchOpts, jar, pageState,
                   browserAlive, observation, file, completion>>

\* The same, with fs.writeFileSync throwing inside the catch block, line 189: the
\* catch block completes abruptly, then the finally block starts.
CatchClosureWriteFail ==
    /\ pc = "waiting"
    /\ WaitEnded
    /\ ShouldSave(cookieSavePath)
    /\ thrown' = thrown \cup {"PersistenceError"}
    /\ completion' = Throw("PersistenceError")
    /\ StartRelease(Append(calls, "writeFileSync"))
    /\ UNCHANGED <<inputs, env, locals, handle, launchOpts, jar, pageState,
                   browserAlive, observation, file, promise>>

\* AfterFinally with `return cookies` evaluated after the release.
AfterFinally_rereads(held, releaseThrew, current) ==
    IF held.type = "return" THEN Return(current) ELSE held

\* AfterFinally without the inner try/catch: a throwing release replaces the
\* held completion.
AfterFinally_overrides(held, releaseThrew, current) ==
    IF releaseThrew THEN Throw("ReleaseError") ELSE held

\* The completion the function ends with after the finally block, lines 193-209:
\* the finally block neither returns nor throws, so the held completion stands,
\* whatever `cookies` (current) holds by then.
AfterFinally(held, releaseThrew, current) == held

\* The awaited disconnect/close settles (a throw is caught and logged, lines
\* 206-208) and the promise settles with the held completion.
ReleaseDone(threw) ==
    /\ pc = "releasing"
    /\ pc' = "done"
    /\ thrown' = IF threw THEN thrown \cup {"ReleaseError"} ELSE thrown
    /\ promise' = Settle(AfterFinally(completion, threw, cookies))
    /\ browserAlive' = (browserAlive /\ isConnectedBrowser)
    /\ UNCHANGED <<inputs, env, locals, handle, launchOpts, calls, jar,
                   pageState, observation, file, completion>>

\* Other code of the process changes the environment while getCookies is
\* suspended at its first await.
EnvChange(ep, exe) ==
    /\ pc \in {"connect", "launch"}
    /\ <<ep, exe>> # <<envEp, envExe>>
    /\ envEp' = ep
    /\ envExe' = exe
    /\ UNCHANGED <<inputs, locals, pc, handle, launchOpts, calls, jar,
                   pageState, browserAlive, observation, thrown, file, completion,
                   promise>>

Next ==
    \/ Call
    \/ ConnectOk
    \/ ConnectFail
    \/ LaunchOk
    \/ LaunchFail
    \/ SeedOk
    \/ SeedFail
    \/ NewPageOk
    \/ NewPageFail
    \/ GotoOk
    \/ GotoFail
    \/ \E s \in Snapshots : Response(s)
    \/ \E r \in pending : ReadComplete(r)
    \/ \E r \in pending : ReadFail(r)
    \/ \E kind \in {"page", "browser"} : ExternalClose(kind)
    \/ CatchClosure
    \/ CatchClosureWriteFail
    \/ \E threw \in BOOLEAN : ReleaseDone(threw)
    \/ \E ep \in EnvEndpoints, exe \in EnvExecPaths : EnvChange(ep, exe)

Spec == Init /\ [][Next]_vars

\* The event loop runs the continuation of a settled await, and the engine
\* settles the release call it was given.
Fairness ==
    /\ WF_vars(CatchClosure \/ CatchClosureWriteFail)
    /\ WF_vars(\E threw \in BOOLEAN : ReleaseDone(threw))

\* The calls the liveness runs start from: those that name an executable path
\* (the endpoint, the environment, the save path and the seeds vary as in Init).
LiveInit == Init /\ Truthy(paramExe)

FairSpec == LiveInit /\ [][Next]_vars /\ Fairness

----------------------------------------------------------------------------
\* Properties.

Called(c) == \E i \in 1..Len(calls) : calls[i] = c

Settled == promise.state # "pending"

RemoteResolves == Truthy(paramEp) \/ Truthy(envEp)

LocalResolves == Truthy(paramExe) \/ Truthy(envExe)

\* What reading the written text back yields: the inverse of JSONstringify.
JSONparse(text) ==
    [i \in 1..Len(text) |-> [name |-> text[i][3], value |-> text[i][5]]]

\* C1: on every exit path on which a handle was acquired, the handle has been
\* released by the time the promise settles: by disconnect in remote mode, by
\* close in local mode.
C1_ReleasedOnEveryExit ==
    (Settled /\ handle # "none") =>
        IF isConnectedBrowser THEN Called("disconnect") ELSE Called("close")

\* C2: the call returns exactly the snapshot of the last read that assigned
\* `cookies` before the closure was handled, with no merge of earlier ones, and
\* the empty sequence when there was none; when that read belongs to the latest
\* response, the returned set is the browser's store.
C2_LastWriteWins ==
    promise.state = "resolved" =>
        /\ promise.value = IF nProduced = 0 THEN <<>> ELSE lastRead.snap
        /\ (nProduced > 0 /\ lastRead.id = responses) => promise.value = jar

C2_Witness ==
    /\ promise.state = "resolved"
    /\ nProduced = 2
    /\ lastRead.id = 2
    /\ promise.value = <<CookieB>>

\* C3 as stated: when page.goto fails the call still enters the wait, still
\* releases the handle, and resolves instead of rejecting with the error.
C3_NavFailureStillWaits ==
    ("NavigationError" \in thrown /\ pc = "done") =>
        /\ Called("waitForFunction")
        /\ Called(ReleaseCall(isConnectedBrowser))
        /\ promise.state = "resolved"

\* C3 amended: when page.goto fails the promise rejects with the navigation error
\* at once: the wait is never entered and nothing is written.
C3_NavFailureRejects ==
    "NavigationError" \in thrown =>
        /\ pc = "done"
        /\ promise = Rejected("NavigationError")
        /\ ~Called("waitForFunction")
        /\ ~Called("writeFileSync")
        /\ file = NoFile

C3_Witness ==
    /\ "NavigationError" \in thrown
    /\ promise.state = "rejected"
    /\ handle # "none"
    /\ jar # <<>>

\* C4: when no endpoint and no executable path resolves, from the parameters or
\* from the environment, the call rejects with the configuration error and makes
\* no connect, launch, seeding, page or release call, then or later.
C4_NoMethodNoCalls ==
    [][/\ (pc = "init" /\ ~RemoteResolves /\ ~LocalResolves) =>
            /\ promise' = Rejected("ConfigurationError")
            /\ pc' = "done"
            /\ calls' = <<>>
       /\ promise.error = "ConfigurationError" => UNCHANGED <<calls, promise, pc>>
      ]_vars

C4_Witness ==
    /\ promise = Rejected("ConfigurationError")
    /\ calls = <<>>
    /\ ~RemoteResolves
    /\ ~LocalResolves

\* C5: whenever an endpoint resolves, from the parameter or else from the
\* environment, connect is called with it and launch is never called, also when
\* an executable path resolves too.
C5_RemotePriority ==
    [][/\ (pc = "init" /\ RemoteResolves) =>
            /\ calls' = <<"connect">>
            /\ browserWSEndpoint' = IF Truthy(paramEp) THEN paramEp ELSE envEp
       /\ Called("connect") => ~Called("launch")'
      ]_vars

C5_Witness ==
    /\ handle = "connected"
    /\ Truthy(paramEp)
    /\ Truthy(paramExe)
    /\ ~Called("launch")

\* C6: with only an endpoint resolvable, connect is called and launch is not,
\* neither at the call nor after the connect attempt has failed.
C6_OnlyRemoteNeverLaunches ==
    [][/\ (pc = "init" /\ RemoteResolves /\ ~LocalResolves) =>
            calls' = <<"connect">>
       /\ pc # "init" => (Called("launch")' => Called("launch"))
      ]_vars

C6_Witness ==
    /\ "ConnectionError" \in thrown
    /\ pc = "done"
    /\ Truthy(browserWSEndpoint)
    /\ ~Truthy(executablePath)
    /\ calls = <<"connect">>

\* C7: with only an executable path resolvable, launch is called with that path
\* and headless: false, and connect is never called.
C7_OnlyLocalLaunchesVisible ==
    [][/\ (pc = "init" /\ ~RemoteResolves /\ LocalResolves) =>
            /\ calls' = <<"launch">>
            /\ launchOpts'.headless = FALSE
            /\ launchOpts'.executablePath =
                   IF Truthy(paramExe) THEN paramExe ELSE envExe
       /\ pc # "init" => (Called("connect")' => Called("connect"))
      ]_vars

C7_Witness ==
    /\ handle = "launched"
    /\ ~Truthy(browserWSEndpoint)
    /\ launchOpts = [executablePath |-> "/env/chrome", headless |-> FALSE]
    /\ ~Called("connect")

\* C8: when cookieSavePath is non-empty and the call has returned, the file at
\* cookieSavePath parses to the returned sequence, whatever the reads still in
\* flight did to `cookies` during the release.
C8_FileEqualsReturned ==
    (promise.state = "resolved" /\ Truthy(cookieSavePath)) =>
        /\ file # NoFile
        /\ JSONparse(file) = promise.value

\* A read completed during the release: `cookies` is no longer what was returned.
C8_Witness ==
    /\ promise.state = "resolved"
    /\ Truthy(cookieSavePath)
    /\ promise.value # <<>>
    /\ cookies # promise.value

\* C9: with cookieSavePath empty, fs.writeFileSync is never called and no file
\* appears, on any path.
C9_EmptyPathNoWrite ==
    ~Truthy(cookieSavePath) => (~Called("writeFileSync") /\ file = NoFile)

C9_Witness ==
    /\ ~Truthy(cookieSavePath)
    /\ promise.state = "resolved"
    /\ promise.value # <<>>

\* C10: a failure of the write to cookieSavePath does not change the outcome: the
\* promise still resolves with the captured cookies.
C10_WriteFailureNonFatal ==
    ("PersistenceError" \in thrown /\ pc = "done") =>
        promise.state = "resolved"

Count(c) == Cardinality({i \in 1..Len(calls) : calls[i] = c})

\* Call a was made, and call b after it.
Before(a, b) == \E i, j \in 1..Len(calls) : i < j /\ calls[i] = a /\ calls[j] = b

\* C11: whenever the wait ended because the page or the browser was closed, the
\* promise resolves with the cookies and does not reject.
C11_ClosureResolves ==
    (pc = "done" /\ pageState = "closed") => promise.state = "resolved"

\* C12: the handle is released at most once, by one release operation only, and
\* that operation matches the acquisition: disconnect only after connect, close
\* only after launch; the remote flag agrees with the branch getBrowser took.
C12_ReleaseMatchesAcquisition ==
    /\ Count("disconnect") + Count("close") <= 1
    /\ Called("disconnect") => (handle = "connected" /\ ~Called("launch"))
    /\ Called("close") => (handle = "launched" /\ ~Called("connect"))
    /\ pc # "init" => (isConnectedBrowser <=> Called("connect"))
    /\ (pc # "init" /\ ~isConnectedBrowser /\ Truthy(executablePath)) =>
           Called("launch")

\* Released by disconnect although the environment no longer names an endpoint.
C12_Witness ==
    /\ pc = "done"
    /\ Called("disconnect")
    /\ handle = "connected"
    /\ ~RemoteResolves

\* C13: non-empty initial cookies are applied in one setCookie call, made after
\* the acquisition succeeded and before the page is opened or navigated; with
\* no initial cookies, setCookie is never called.
C13_SeedingBeforePage ==
    /\ Count("setCookie") <= 1
    /\ Len(defaultCookies) = 0 => ~Called("setCookie")
    /\ (Len(defaultCookies) > 0 /\ handle # "none") => Called("setCookie")
    /\ Called("setCookie") =>
           /\ handle # "none"
           /\ Before("connect", "setCookie") \/ Before("launch", "setCookie")
           /\ ~Before("newPage", "setCookie")
           /\ ~Before("goto", "setCookie")

C13_Witness ==
    /\ Before("setCookie", "newPage")
    /\ Before("setCookie", "goto")
    /\ jar = defaultCookies
    /\ pc = "goto"

\* C14: when seeding fails after the handle was acquired, the call rejects with
\* that error and the handle has been released before the promise rejects.
C14_SeedFailureReleases ==
    ("SeedingError" \in thrown /\ Settled) =>
        /\ promise = Rejected("SeedingError")
        /\ Called(ReleaseCall(isConnectedBrowser))

\* C15: a failed write to cookieSavePath does not prevent cleanup: the release
\* call is made after the failed write.
C15_WriteFailureStillReleases ==
    "PersistenceError" \in thrown =>
        Before("writeFileSync", ReleaseCall(isConnectedBrowser))

C15_Witness ==
    /\ "PersistenceError" \in thrown
    /\ pc = "done"
    /\ Before("writeFileSync", "close")

\* C16: a failing release never overrides the outcome: after a failed write the
\* promise still rejects with the write error, otherwise it still resolves with
\* the cookies captured when the closure was handled.
C16_ReleaseFailureKeepsOutcome ==
    ("ReleaseError" \in thrown /\ pc = "done") =>
        IF "PersistenceError" \in thrown
        THEN promise = Rejected("PersistenceError")
        ELSE promise = Resolved(lastRead.snap)

C16_Witness ==
    /\ "ReleaseError" \in thrown
    /\ promise.state = "resolved"
    /\ promise.value # <<>>

\* C17: once acquisition and navigation have succeeded and the page or the
\* browser has been closed, the promise eventually settles and the release call
\* is eventually made.
C17_ClosureLeadsToSettle ==
    (Called("waitForFunction") /\ pageState = "closed")
        ~> (Settled /\ Called(ReleaseCall(isConnectedBrowser)))

\* Closed by closing the page only, and settled.
C17_Witness ==
    /\ Called("waitForFunction")
    /\ pageState = "closed"
    /\ browserAlive
    /\ Settled
    /\ Called("disconnect")

\* C18: after the navigation succeeded and while the page is open, the promise
\* stays pending, nothing is written and no release call is made; the wait only
\* ends once the page is closed.
C18_NothingWhileOpen ==
    (Called("waitForFunction") /\ pageState = "open") =>
        /\ pc = "waiting"
        /\ promise = Pending
        /\ ~Called("writeFileSync")
        /\ file = NoFile
        /\ ~Called("disconnect")
        /\ ~Called("close")

\* Still waiting after every response has been read.
C18_Witness ==
    /\ Called("waitForFunction")
    /\ pageState = "open"
    /\ responses = MaxResponses
    /\ pending = {}
    /\ cookies # <<>>
    /\ promise = Pending

\* The place of a call in the session's order of steps.
Rank(c) ==
    CASE c \in {"connect", "launch"} -> 1
      [] c = "setCookie" -> 2
      [] c = "newPage" -> 3
      [] c = "goto" -> 4
      [] c = "on" -> 5
      [] c = "waitForFunction" -> 6
      [] c = "writeFileSync" -> 7
      [] c \in {"disconnect", "close"} -> 8

InOrder(log) == \A i, j \in 1..Len(log) : i < j => Rank(log[i]) < Rank(log[j])

\* C19: the calls of an invocation follow the order acquire, (seed,) open page,
\* navigate, register observer, wait, persist, release, each made at most once;
\* once the promise has settled, it, the call log and the position stay as they
\* are.
C19_StepsInOrderOnce ==
    [][/\ InOrder(calls')
       /\ Settled => (promise' = promise /\ calls' = calls /\ pc' = "done")
      ]_vars

C19_Witness ==
    /\ pc = "done"
    /\ calls = <<"launch", "setCookie", "newPage", "goto", "on",
                 "waitForFunction", "writeFileSync", "close">>

\* C20: one acquisition attempt at most: a failed connect rejects the promise
\* with its error and is not followed by a launch, also when an executable path
\* resolves; a failed launch rejects the promise and is not repeated.
C20_OneAcquisitionAttempt ==
    /\ Count("connect") + Count("launch") <= 1
    /\ "ConnectionError" \in thrown =>
           (promise = Rejected("ConnectionError") /\ calls = <<"connect">>)
    /\ "LaunchError" \in thrown =>
           (promise = Rejected("LaunchError") /\ calls = <<"launch">>)

C20_Witness ==
    /\ "ConnectionError" \in thrown
    /\ Truthy(executablePath)
    /\ pc = "done"

\* C21: when every read started by the delivered responses has completed, with
\* the page still open, `cookies` is the snapshot of the most recently delivered
\* response, in whatever order the reads completed.
C21_LatestResponseWins ==
    (pc = "waiting" /\ pageState = "open" /\ pending = {} /\ nProduced > 0) =>
        cookies = jar

====
